---- MODULE Spec2Model ----
(***************************************************************************)
(* A model of the browser-side form-state synchronisation of sylman:       *)
(*   - the Sync Engine (public/js/formSubmit.js): saveFormData, the        *)
(*     autosave interval and the submit listener;                          *)
(*   - the Document Assembler / Populator (formUtils.js, kept in the       *)
(*     source tree as public/js/resetPasswordScript.js): collectFormData,  *)
(*     populateForm, populateInstructors;                                  *)
(*   - the SLO part of the Dynamic List Builder (formUtils.js,             *)
(*     eventInit.js, assessmentManager.js).                                *)
(* Strings are sequences of one-character strings, so that trimming and    *)
(* HTML attribute parsing are computed rather than assumed.                *)
(***************************************************************************)
EXTENDS Integers, Sequences, FiniteSets, Bags, TLC

VARIABLES
    \* --- session storage, URL and module-level state of formSubmit.js ---
    sessionUserId,        \* sessionStorage 'userId' present
    sessionSyllabusId,    \* sessionStorage 'syllabusId' (0: absent)
    urlSyllabusId,        \* ?syllabusId= of the page URL (0: absent)
    hiddenSyllabusId,     \* value of the hidden #syllabusId field (0: empty/absent)
    previousFormData,     \* formSubmit.js:31
    autoSaveIntervalId,   \* formSubmit.js:7  (0: no interval)
    statusText,           \* #autosave-status textContent
    inflight,             \* bag of the requests whose response is awaited
    \* --- DOM read by the assembler ---
    fields,               \* scalar inputs, by element id
    instructorsDom,       \* #instructorsContainer > div, in order
    policyText,           \* [data-policy-key] elements, by key
    sloCells,             \* groups of the .slo-cell elements, by data-slo-index
    addListeners,         \* click listeners of each cell's Add button
    \* --- remote store (REST contract) ---
    serverDocs,           \* ids the store holds
    nextId,               \* next id the store assigns
    \* --- observation (history) ---
    lastCall,             \* facts about the most recent saveFormData / submit call
    createdId,            \* id returned by the first confirmed create (0: none yet)
    everConfirmed,        \* the store has confirmed a save or submit of this session
    failedAttempt,        \* the last completed save attempt failed; no edit or save call since
    sinceAutosave,        \* "none" | "clean" | "dirty": DOM edits since the last autosave call
    stale404,             \* a save's update was answered 404 and no save was attempted since
    rt,                   \* round trip: its phase and the two assembled documents
    sloLast,              \* the last addSLOInput call: its cell before and after
    outcomesTable,        \* the rows of #outcomesAssessmentTable, one per SLO
    load,                 \* loadSyllabusData: its phase and the stored document
    weighting,            \* the weighting table: its rows, the displayed total
    modules,              \* the module manager: container, date picker, select
    quillInstances,       \* quillUtils.js: the registry of attached editors
    quillDom,             \* the editor containers in the DOM, the last quillUtils call
    gateway,              \* syllabusAPI.js: a call, the response it gets, how it settles
    richText,             \* the editor of a rich-text field, the last document assembly
    validation            \* the server's validateRequiredFields: a request body, its outcome

syncVars == <<sessionUserId, sessionSyllabusId, urlSyllabusId, hiddenSyllabusId,
              previousFormData, autoSaveIntervalId, statusText, inflight,
              serverDocs, nextId, lastCall, createdId, everConfirmed,
              failedAttempt,
              sinceAutosave, stale404>>
domVars == <<fields, instructorsDom, policyText>>
sloVars == <<sloCells, addListeners, sloLast, outcomesTable>>
widgetVars == <<weighting, modules, quillInstances, quillDom, gateway, richText, validation>>
otherVars == <<load, widgetVars>>
vars == <<syncVars, domVars, sloVars, rt, otherVars>>

----------------------------------------------------------------------------
\* Bounds of the model.
MaxIds == 2          \* ids the store may assign
MaxInFlight == 2     \* requests awaited at the same time
MaxLen == 2          \* length of a text typed into an instructor input
MaxInstructors == 1  \* instructor blocks of the form in the round trip
MaxOutcome == 2      \* outcome cells of the SLO table that are modelled
MaxGroups == 3       \* SLO groups the user has added to the table

Null == [null |-> TRUE]
Empty == << >>
SPACE == " "
QUOTE == "\""
Chars == {"a", SPACE, QUOTE}

RECURSIVE StrsOfLen(_)
StrsOfLen(n) ==
    IF n = 0 THEN {Empty}
    ELSE {Append(s, c) : s \in StrsOfLen(n - 1), c \in Chars}

Strs == UNION {StrsOfLen(n) : n \in 0..MaxLen}

\* String.prototype.trim (spaces are the only whitespace of Chars)
RECURSIVE trimStart(_)
trimStart(s) ==
    IF s = Empty THEN Empty
    ELSE IF Head(s) = SPACE THEN trimStart(Tail(s)) ELSE s

RECURSIVE trimEnd(_)
trimEnd(s) ==
    IF s = Empty THEN Empty
    ELSE IF s[Len(s)] = SPACE THEN trimEnd(SubSeq(s, 1, Len(s) - 1)) ELSE s

trim(s) == trimEnd(trimStart(s))

----------------------------------------------------------------------------
\* The assembler.
ScalarFields == {"programSelect", "courseTitle", "courseNumber", "credits",
                 "placement", "courseType", "courseDelivery", "courseLead",
                 "leadEmail", "leadPhone", "leadOffice", "leadOfficeHours",
                 "courseReqs", "courseDescription", "requiredMaterials",
                 "instructionalMethods", "courseCommunications"}

InstructorKeys == {"name", "email", "phone", "office", "officeHours"}

\* helper.js getValueById: the element's value, '' when the element is absent
getValueById(id) == IF id \in DOMAIN fields THEN fields[id] ELSE Empty

\* one instructor block: value?.trim() || '' of each of its five inputs
collectInstructor(div) == [k \in InstructorKeys |-> trim(div[k])]

collectFormData ==
    [programSelect        |-> getValueById("programSelect"),
     courseTitle          |-> getValueById("courseTitle"),
     courseNumber         |-> getValueById("courseNumber"),
     credits              |-> getValueById("credits"),
     placement            |-> getValueById("placement"),
     courseType           |-> getValueById("courseType"),
     courseDelivery       |-> getValueById("courseDelivery"),
     courseLead           |-> getValueById("courseLead"),
     leadEmail            |-> getValueById("leadEmail"),
     leadPhone            |-> getValueById("leadPhone"),
     leadOffice           |-> getValueById("leadOffice"),
     leadOfficeHours      |-> getValueById("leadOfficeHours"),
     instructors          |-> [i \in 1..Len(instructorsDom) |->
                                  collectInstructor(instructorsDom[i])],
     courseReqs           |-> getValueById("courseReqs"),
     courseDescription    |-> getValueById("courseDescription"),
     requiredMaterials    |-> getValueById("requiredMaterials"),
     instructionalMethods |-> getValueById("instructionalMethods"),
     courseCommunications |-> getValueById("courseCommunications"),
     learningOutcomes     |-> << >>,
     assessments          |-> << >>,
     weightingDetails     |-> << >>,
     gradingElements      |-> << >>,
     modules              |-> << >>,
     slo                  |-> << >>,
     policiesAndServices  |-> [k \in DOMAIN policyText |-> trim(policyText[k])],
     programOutcomes      |-> << >>]

----------------------------------------------------------------------------
\* The Sync Engine (formSubmit.js).

\* JSON.stringify of null or of an assembled document: injective on both
JSONstringify(d) == IF d = Null THEN <<Null>> ELSE <<"object", d>>

\* formSubmit.js:66-68: the keys whose value is '' (or null); arrays and
\* objects are never '' so only the scalar fields can be listed
requiredFields(formData) == {k \in ScalarFields : formData[k] = Empty}

\* formSubmit.js:51-55: sessionStorage first, then the hidden #syllabusId field
resolveSyllabusId ==
    IF sessionSyllabusId # 0 THEN sessionSyllabusId ELSE hiddenSyllabusId

\* formSubmit.js:58: the autosave skip test
\* (mutant: the snapshot compared by reference, which never matches a fresh object)
autosaveUnchangedByReference(isAutosave, formData) == FALSE
autosaveUnchanged(isAutosave, formData) ==
    isAutosave /\ JSONstringify(previousFormData) = JSONstringify(formData)

\* formSubmit.js:65-74: the validation that aborts the save
\* (mutant: the isAutosave test dropped)
validationFailsAlways(isAutosave, formData) == requiredFields(formData) # {}
validationFails(isAutosave, formData) ==
    ~isAutosave /\ requiredFields(formData) # {}

\* formSubmit.js:77-78 and 181-182
methodFor(syllabusId) == IF syllabusId # 0 THEN "PUT" ELSE "POST"

SaveInFlight == \E r \in BagToSet(inflight) : r.kind = "save"

\* a request goes to the document this session created
toCreated(req) == createdId # 0 /\ req.method = "PUT" /\ req.id = createdId

\* what is recorded of the most recent call of saveFormData or of the submit
\* listener: what it did (sent, method, toCreated) and the circumstances it
\* ran in (the other fields)
NoCall == [kind |-> "none", sent |-> FALSE, method |-> "", toCreated |-> FALSE,
           clean |-> FALSE, userOk |-> FALSE, missing |-> FALSE,
           changed |-> FALSE, retry |-> FALSE, afterCreate |-> FALSE,
           after404 |-> FALSE]

\* formSubmit.js:34-103: saveFormData up to its first await (the fetch)
saveFormData(isAutosave) ==
    LET formData   == collectFormData
        syllabusId == resolveSyllabusId
        skip       == autosaveUnchanged(isAutosave, formData)
        invalid    == validationFails(isAutosave, formData)
        sends      == sessionUserId /\ ~skip /\ ~invalid
        throws     == ~sessionUserId \/ (~skip /\ invalid)
        req        == [kind |-> "save", method |-> methodFor(syllabusId),
                       id |-> syllabusId, autosave |-> isAutosave]
    IN  /\ sends => BagCardinality(inflight) < MaxInFlight
        /\ statusText' =
              IF ~isAutosave THEN statusText
              ELSE IF throws THEN "Autosave failed. Please check your connection."
              ELSE "Autosaving..."
        /\ previousFormData' =
              IF sessionUserId /\ ~skip THEN formData ELSE previousFormData
        /\ inflight' = IF sends THEN inflight (+) SetToBag({req}) ELSE inflight
        /\ lastCall' = [kind     |-> IF isAutosave THEN "autosave" ELSE "manual",
                        sent     |-> sends,
                        method   |-> IF sends THEN req.method ELSE "",
                        toCreated |-> sends /\ toCreated(req),
                        clean    |-> isAutosave /\ sinceAutosave = "clean",
                        userOk   |-> sessionUserId,
                        missing  |-> ~isAutosave /\ requiredFields(formData) # {},
                        changed  |-> isAutosave /\ JSONstringify(previousFormData)
                                                    # JSONstringify(formData),
                        retry    |-> failedAttempt /\ ~SaveInFlight
                                                   /\ ~everConfirmed,
                        afterCreate |-> createdId # 0,
                        after404    |-> stale404]
        /\ sinceAutosave' = IF isAutosave THEN "clean" ELSE "none"
        /\ stale404' = FALSE
        /\ failedAttempt' = throws
        /\ UNCHANGED <<sessionUserId, sessionSyllabusId, urlSyllabusId,
                       hiddenSyllabusId, autoSaveIntervalId, serverDocs, nextId,
                       createdId, everConfirmed>>
        /\ UNCHANGED <<domVars, sloVars, rt, otherVars>>

\* formSubmit.js:160-162: a tick of the autosave interval
AutosaveTick ==
    /\ autoSaveIntervalId # 0
    /\ saveFormData(TRUE)

\* a manual save: saveFormData() with isAutosave = false
ManualSave == saveFormData(FALSE)

\* The store, as the REST contract describes it: an update of an unknown id is
\* answered 404, a create returns a fresh id; any request may fail in transit
\* (the fetch rejects) or be answered with another non-2xx status, and an error
\* body may or may not be JSON.
ServerOutcomes(req) ==
    {"network_error", "error_json", "error_text"}
    \cup (IF req.method = "PUT"
          THEN (IF req.id \in serverDocs THEN {"ok"}
                ELSE {"404_json", "404_text"})
          ELSE (IF nextId <= MaxIds THEN {"ok"} ELSE {}))

\* what the store does when it answers req with outcome o
ServerApply(req, o) ==
    IF o = "ok" /\ req.method = "POST"
    THEN /\ serverDocs' = serverDocs \cup {nextId}
         /\ nextId' = nextId + 1
    ELSE UNCHANGED <<serverDocs, nextId>>

\* formSubmit.js:110-113: the stale id is dropped when the 404 is recognised,
\* which is after the error body has been parsed as JSON (line 106)
clearsStaleId(o) == o = "404_json"

\* formSubmit.js:128-132 and 138-141: the status text after a response (the
\* timer of line 131, which blanks the text 5 s after a success, is left out)
statusAfter(isAutosave, ok) ==
    IF ~isAutosave THEN statusText
    ELSE IF ok THEN "Autosaved at: <time>"
    ELSE "Autosave failed. Please check your connection."

\* formSubmit.js:105-142: saveFormData from the fetch's settlement to its end
SaveResponse(req, o) ==
    /\ BagIn(req, inflight)
    /\ req.kind = "save"
    /\ o \in ServerOutcomes(req)
    /\ ServerApply(req, o)
    /\ inflight' = inflight (-) SetToBag({req})
    /\ sessionSyllabusId' =
          IF o = "ok"
          THEN (IF req.id = 0 THEN nextId ELSE sessionSyllabusId)
          ELSE IF clearsStaleId(o) THEN 0
          ELSE sessionSyllabusId
    /\ statusText' = statusAfter(req.autosave, o = "ok")
    /\ createdId' = IF o = "ok" /\ req.id = 0 /\ createdId = 0 THEN nextId
                    ELSE createdId
    /\ everConfirmed' = (everConfirmed \/ o = "ok")
    /\ failedAttempt' = (o # "ok")
    /\ stale404' = IF o \in {"404_json", "404_text"} THEN TRUE ELSE stale404
    /\ UNCHANGED <<sessionUserId, urlSyllabusId, hiddenSyllabusId,
                   previousFormData, autoSaveIntervalId, lastCall,
                   sinceAutosave>>
    /\ UNCHANGED <<domVars, sloVars, rt, otherVars>>

\* formSubmit.js:234-237
getSyllabusId == hiddenSyllabusId

\* formSubmit.js:205-228 and 177-189: the submit listener registered by
\* handleFormSubmission, up to the fetch that submitSyllabus awaits.  (The two
\* other submit listeners, eventInit.js:331-345 and formScript.js:40-51, call
\* submitSyllabus(formData): the document lands in the userId parameter and an
\* extra POST /syllabus goes out, whose response no code reads.)
FormSubmit ==
    LET syllabusId == getSyllabusId
        req        == [kind |-> "submit", method |-> methodFor(syllabusId),
                       id |-> syllabusId, autosave |-> FALSE]
    IN  /\ sessionUserId => BagCardinality(inflight) < MaxInFlight
        /\ inflight' = IF sessionUserId THEN inflight (+) SetToBag({req})
                       ELSE inflight
        /\ lastCall' = [NoCall EXCEPT !.kind = "submit",
                                      !.sent = sessionUserId,
                                      !.method = IF sessionUserId THEN req.method ELSE "",
                                      !.toCreated = sessionUserId /\ toCreated(req),
                                      !.userOk = sessionUserId,
                                      !.afterCreate = createdId # 0]
        /\ sinceAutosave' = "none"
        /\ UNCHANGED <<sessionUserId, sessionSyllabusId, urlSyllabusId,
                       hiddenSyllabusId, previousFormData, autoSaveIntervalId,
                       statusText, serverDocs, nextId, createdId, everConfirmed,
                       failedAttempt, stale404>>
        /\ UNCHANGED <<domVars, sloVars, rt, otherVars>>

\* formSubmit.js:168-174
stopAutosave == autoSaveIntervalId' = 0

\* formSubmit.js:183-199 and 221: submitSyllabus swallows every failure, so
\* handleFormSubmission goes on to stopAutosave() whatever the outcome
SubmitResponse(req, o) ==
    /\ BagIn(req, inflight)
    /\ req.kind = "submit"
    /\ o \in ServerOutcomes(req)
    /\ ServerApply(req, o)
    /\ inflight' = inflight (-) SetToBag({req})
    /\ stopAutosave
    /\ everConfirmed' = (everConfirmed \/ o = "ok")
    /\ UNCHANGED <<sessionUserId, sessionSyllabusId, urlSyllabusId,
                   hiddenSyllabusId, previousFormData, statusText, lastCall,
                   createdId, failedAttempt, sinceAutosave, stale404>>
    /\ UNCHANGED <<domVars, sloVars, rt, otherVars>>

\* The user types into a scalar input.
EditableFields == {"courseTitle"}
FieldValues == {Empty, <<"a">>}

EditField(f, v) ==
    /\ v # fields[f]
    /\ fields' = [fields EXCEPT ![f] = v]
    /\ sinceAutosave' = IF sinceAutosave = "none" THEN "none" ELSE "dirty"
    /\ failedAttempt' = FALSE
    /\ UNCHANGED <<sessionUserId, sessionSyllabusId, urlSyllabusId,
                   hiddenSyllabusId, previousFormData, autoSaveIntervalId,
                   statusText, inflight, serverDocs, nextId, lastCall,
                   createdId, everConfirmed, stale404>>
    /\ UNCHANGED <<instructorsDom, policyText, sloVars, rt, otherVars>>

\* DELETE /syllabus/:id issued from the dashboard (dashboardScript.js) in
\* another tab: the store forgets the document
ServerDelete(id) ==
    /\ id \in serverDocs
    /\ serverDocs' = serverDocs \ {id}
    /\ UNCHANGED <<sessionUserId, sessionSyllabusId, urlSyllabusId,
                   hiddenSyllabusId, previousFormData, autoSaveIntervalId,
                   statusText, inflight, nextId, lastCall, createdId,
                   everConfirmed, failedAttempt, sinceAutosave, stale404>>
    /\ UNCHANGED <<domVars, sloVars, rt, otherVars>>

Outcomes == {"network_error", "error_json", "error_text", "ok",
             "404_json", "404_text"}

PolicyKeys == {"generalPolicies", "attendance"}

NoRt == [phase |-> "off"]
NoSlo == [op |-> "none"]
NoLoad == [phase |-> "none", pending |-> {}, populated |-> {}]
EmptyCells == [o \in 1..MaxOutcome |-> << >>]
NoListeners == [o \in 1..MaxOutcome |-> {}]

\* the weighting table as the markup has it: no row, no total displayed yet
NoWeighting == [rows |-> << >>, textContent |-> Empty, color |-> "", last |-> "none"]

\* the widgets outside the part of the page a specification is about
\* moduleManager.js:47-55: an empty container, no date, the select on its
\* first option
NoModules == [blocks |-> << >>, datePicker |-> "", moduleSelect |-> 1,
              last |-> [op |-> "none"]]

\* quillUtils.js:15: no editor attached; no editor container considered
\* (orphans: the editors whose container has been removed from the DOM)
NoQuillDom == [elements |-> {}, created |-> 0, orphans |-> {},
               last |-> [op |-> "none"]]

\* no Remote Gateway call under consideration
NoGateway == [phase |-> "idle"]

\* quillUtils.js:84: an editor starts with the content of its textarea; no
\* document assembled yet
NoRichText == [editor |-> Empty, last |-> [op |-> "none"]]

\* no request at the validation middleware
NoValidation == [phase |-> "idle"]

WidgetsIdle ==
    /\ weighting = NoWeighting
    /\ modules = NoModules
    /\ quillInstances = << >>
    /\ quillDom = NoQuillDom
    /\ gateway = NoGateway
    /\ richText = NoRichText
    /\ validation = NoValidation

\* The page after DOMContentLoaded: a blank form (no ?syllabusId) or a form
\* loaded by id (formUtils.js loadSyllabusData:473 stores the id in session
\* storage, initializeForm:764-767 copies it to the hidden #syllabusId field);
\* formSubmit.js:267 has started the autosave interval.
Init ==
    /\ sessionUserId \in BOOLEAN
    /\ urlSyllabusId \in {0, 1}
    /\ sessionSyllabusId = urlSyllabusId
    /\ hiddenSyllabusId = urlSyllabusId
    /\ previousFormData = Null
    /\ autoSaveIntervalId = 1
    /\ statusText = ""
    /\ inflight = EmptyBag
    /\ fields = [f \in ScalarFields |-> <<"a">>]
    /\ instructorsDom = << >>
    /\ policyText = [k \in PolicyKeys |-> <<"a">>]
    /\ sloCells = EmptyCells
    /\ addListeners = NoListeners
    /\ serverDocs = {urlSyllabusId} \ {0}
    /\ nextId = 2
    /\ lastCall = NoCall
    /\ createdId = 0
    /\ everConfirmed = FALSE
    /\ failedAttempt = FALSE
    /\ sinceAutosave = "none"
    /\ stale404 = FALSE
    /\ rt = NoRt
    /\ sloLast = NoSlo
    /\ outcomesTable = << >>
    /\ load = NoLoad
    /\ WidgetsIdle

Next ==
    \/ AutosaveTick
    \/ ManualSave
    \/ FormSubmit
    \/ \E req \in BagToSet(inflight), o \in Outcomes : SaveResponse(req, o)
    \/ \E req \in BagToSet(inflight), o \in Outcomes : SubmitResponse(req, o)
    \/ \E f \in EditableFields, v \in FieldValues : EditField(f, v)
    \/ \E id \in 1..MaxIds : ServerDelete(id)

Spec == Init /\ [][Next]_vars

----------------------------------------------------------------------------
\* The populator (formUtils.js) and the round trip of an assembled document.

\* The value the HTML parser gives an attribute written value="<s>" in a
\* string assigned to innerHTML: the text up to the first double quote.
RECURSIVE parseAttributeValue(_)
parseAttributeValue(s) ==
    IF s = Empty \/ Head(s) = QUOTE THEN Empty
    ELSE <<Head(s)>> \o parseAttributeValue(Tail(s))

\* The text of <textarea>s</textarea> in a string assigned to innerHTML: s,
\* as Chars holds no '<', no '&' and no line break.
parseTextareaContent(s) == s

\* formUtils.js:1777-1829: the block that populateInstructors builds for one
\* instructor; the four inputs get their value from the template's value="..."
\* attribute, the hidden textarea from its content
instructorBlock(instructor) ==
    [name        |-> parseAttributeValue(instructor.name),
     email       |-> parseAttributeValue(instructor.email),
     phone       |-> parseAttributeValue(instructor.phone),
     office      |-> parseAttributeValue(instructor.office),
     officeHours |-> parseTextareaContent(instructor.officeHours)]

populateInstructors(instructors) ==
    [i \in 1..Len(instructors) |-> instructorBlock(instructors[i])]

\* formUtils.js:233-238: data[field] ?? defaults[field] ?? '' for each field
\* that has an element
populateFields(elements, data, defaults) ==
    [f \in DOMAIN elements |->
        IF f \in DOMAIN data THEN data[f]
        ELSE IF f \in DOMAIN defaults THEN defaults[f]
        ELSE Empty]

Programs == {"BSN", "MSN", "DNP"}

\* formUtils.js:253-313: the table defaultPolicies.  A one-word text stands for
\* each policy text; equal words are equal texts: the general policies differ
\* from program to program, the attendance text is the same for the three
defaultPolicies(program) ==
    [k \in PolicyKeys |->
        IF k = "generalPolicies"
        THEN (IF program = "BSN" THEN <<"This course ...">>
              ELSE <<program, "This course ...">>)
        ELSE <<"Attendance is expected ... (Student Handbook)">>]

defaultPoliciesBSN == defaultPolicies("BSN")

\* formUtils.js:530-612: getDefaultPolicies(program), with its own texts; an
\* unknown program gets the entry 'default', whose texts are those of BSN
getDefaultPolicies(program) ==
    [k \in PolicyKeys |->
        IF k = "generalPolicies"
        THEN (IF program \in {"MSN", "DNP"} THEN <<program, "This course ...">>
              ELSE <<"BSN", "This course ...">>)
        ELSE <<"Attendance is expected ...">>]

\* formUtils.js:1020-1073: populateForm.  The document's programOutcomes is
\* an array, which names no program, so populateProgramAndSLOs (1080-1092)
\* empties the outcome table.
populateForm(syllabusData) ==
    /\ fields' = populateFields(fields, syllabusData, << >>)
    /\ policyText' = populateFields(policyText, syllabusData.policiesAndServices,
                                    defaultPoliciesBSN)
    /\ sloCells' = EmptyCells
    /\ addListeners' = NoListeners
    /\ instructorsDom' = populateInstructors(syllabusData.instructors)

\* the state of the engine on a blank form, before any save
SyncAtLoad ==
    /\ sessionUserId = TRUE
    /\ urlSyllabusId = 0
    /\ sessionSyllabusId = 0
    /\ hiddenSyllabusId = 0
    /\ previousFormData = Null
    /\ autoSaveIntervalId = 1
    /\ statusText = ""
    /\ inflight = EmptyBag
    /\ serverDocs = {}
    /\ nextId = 2
    /\ lastCall = NoCall
    /\ createdId = 0
    /\ everConfirmed = FALSE
    /\ failedAttempt = FALSE
    /\ sinceAutosave = "none"
    /\ stale404 = FALSE

\* texts of the elements whose round trip involves no parsing
PlainTexts == {<<"a">>, <<SPACE, "a">>}

\* an instructor block as the user has filled it in
InstructorBlocks ==
    [name : Strs, email : {<<"a">>}, phone : {<<"a">>}, office : {<<"a">>},
     officeHours : PlainTexts]

\* first assembly: D' = collectFormData()
RtCollect ==
    /\ rt.phase = "filled"
    /\ rt' = [phase |-> "collected", d1 |-> collectFormData]
    /\ UNCHANGED <<syncVars, domVars, sloVars, otherVars>>

\* the form populated from D'
RtPopulate ==
    /\ rt.phase = "collected"
    /\ populateForm(rt.d1)
    /\ rt' = [rt EXCEPT !.phase = "populated"]
    /\ UNCHANGED <<syncVars, sloLast, outcomesTable, otherVars>>

\* second assembly
RtCollectAgain ==
    /\ rt.phase = "populated"
    /\ rt' = [phase |-> "done", d1 |-> rt.d1, d2 |-> collectFormData]
    /\ UNCHANGED <<syncVars, domVars, sloVars, otherVars>>

InitRT ==
    /\ SyncAtLoad
    /\ fields = [f \in ScalarFields |-> <<"a">>]
    /\ policyText \in [PolicyKeys -> PlainTexts]
    /\ \E n \in 0..MaxInstructors : instructorsDom \in [1..n -> InstructorBlocks]
    /\ sloCells = EmptyCells
    /\ addListeners = NoListeners
    /\ rt = [phase |-> "filled"]
    /\ sloLast = NoSlo
    /\ outcomesTable = << >>
    /\ load = NoLoad
    /\ WidgetsIdle

NextRT ==
    \/ RtCollect
    \/ RtPopulate
    \/ RtCollectAgain

SpecRT == InitRT /\ [][NextRT]_vars

----------------------------------------------------------------------------
\* Loading a stored document into the form (formUtils.js, formScript.js).

\* { ...defaults, ...stored }
spread(defaults, stored) ==
    [k \in (DOMAIN defaults) \cup (DOMAIN stored) |->
        IF k \in DOMAIN stored THEN stored[k] ELSE defaults[k]]

\* document.getElementById('programSelect')?.value || 'default'
selectedProgram == IF fields["programSelect"] = Empty THEN "default"
                   ELSE fields["programSelect"][1]

\* formUtils.js:499-506: the policies of the loaded document completed with
\* the defaults of the program the select shows when the response arrives
withDefaultPolicies(syllabusData) ==
    [syllabusData EXCEPT !.policiesAndServices =
        spread(getDefaultPolicies(selectedProgram), @)]

\* a document as the store holds it: program P and some of the policies
storedDocument(P, policies) ==
    [f \in ScalarFields |-> IF f = "programSelect" THEN <<P>> ELSE <<"a">>]
    @@ [instructors |-> << >>, policiesAndServices |-> policies,
        programOutcomes |-> << >>, slo |-> << >>]

StoredPolicies ==
    UNION {[S -> {Empty, <<"stored text">>}] : S \in SUBSET PolicyKeys}

\* The three requests for the document that the page sends at DOMContentLoaded
\* when the URL names a syllabus: initializeRetrieveSyllabusData
\* (formUtils.js:768), loadSyllabusData called by initializeForm
\* (formUtils.js:784) and loadSyllabusData called by formScript.js:18.
Loaders == {"initializeRetrieveSyllabusData", "initializeForm", "formScript"}

\* formUtils.js:680-726: the response to initializeRetrieveSyllabusData; the
\* document is passed to populateForm as stored
RetrieveResponse(ok) ==
    /\ "initializeRetrieveSyllabusData" \in load.pending
    /\ IF ok THEN populateForm(load.stored)
             ELSE UNCHANGED <<domVars, sloCells, addListeners>>
    /\ load' = [load EXCEPT !.pending = @ \ {"initializeRetrieveSyllabusData"},
                            !.populated = IF ok
                                          THEN @ \cup {"initializeRetrieveSyllabusData"}
                                          ELSE @]
    /\ UNCHANGED <<syncVars, sloLast, outcomesTable, rt, widgetVars>>

\* formUtils.js:478-521 followed by formUtils.js:785-788 or formScript.js:19-29:
\* the response to a loadSyllabusData request and the population that follows
LoadResponse(who, ok) ==
    /\ who \in load.pending \ {"initializeRetrieveSyllabusData"}
    /\ IF ok THEN populateForm(withDefaultPolicies(load.stored))
             ELSE UNCHANGED <<domVars, sloCells, addListeners>>
    /\ load' = [load EXCEPT !.pending = @ \ {who},
                            !.populated = IF ok THEN @ \cup {who} ELSE @]
    /\ UNCHANGED <<syncVars, sloLast, outcomesTable, rt, widgetVars>>

\* The page of ?syllabusId=1 after its DOMContentLoaded listeners have run:
\* the id is in session storage and in the hidden field, the three requests
\* are awaited, the program select shows what the markup selects.
InitLoad ==
    /\ sessionUserId = TRUE
    /\ urlSyllabusId = 1
    /\ sessionSyllabusId = 1
    /\ hiddenSyllabusId = 1
    /\ previousFormData = Null
    /\ autoSaveIntervalId = 1
    /\ statusText = ""
    /\ inflight = EmptyBag
    /\ serverDocs = {1}
    /\ nextId = 2
    /\ lastCall = NoCall
    /\ createdId = 0
    /\ everConfirmed = FALSE
    /\ failedAttempt = FALSE
    /\ sinceAutosave = "none"
    /\ stale404 = FALSE
    /\ \E v \in {Empty} \cup {<<P>> : P \in Programs} :
          fields = [f \in ScalarFields |-> IF f = "programSelect" THEN v ELSE Empty]
    /\ policyText = [k \in PolicyKeys |-> Empty]
    /\ instructorsDom = << >>
    /\ sloCells = EmptyCells
    /\ addListeners = NoListeners
    /\ sloLast = NoSlo
    /\ outcomesTable = << >>
    /\ rt = NoRt
    /\ \E P \in Programs, policies \in StoredPolicies :
          load = [phase |-> "page", pending |-> Loaders, populated |-> {},
                  stored |-> storedDocument(P, policies)]
    /\ WidgetsIdle

NextLoad ==
    \/ \E ok \in BOOLEAN : RetrieveResponse(ok)
    \/ \E who \in Loaders, ok \in BOOLEAN : LoadResponse(who, ok)

SpecLoad == InitLoad /\ [][NextLoad]_vars

----------------------------------------------------------------------------
\* The SLO column of the program outcomes table (formUtils.js, eventInit.js,
\* assessmentManager.js).  A group is a div holding a textarea and a Remove
\* button; the Add button is the last child of its cell.

\* formUtils.js:351-354: every outcome of sloMapping lists two SLOs
SLOsPerOutcome == 2

\* the placeholder text of a group's textarea, and the key it shows
placeholder(g) == <<g.prefix, g.o, g.i>>
key(g) == <<g.o, g.i>>

\* sloCell.querySelectorAll('textarea').map(input => input.placeholder)
existingPlaceholders(cell) == {placeholder(cell[k]) : k \in 1..Len(cell)}

\* sloCell.querySelectorAll('.slo-group').length
sloGroupCount(cell) == Cardinality({k \in 1..Len(cell) : cell[k].cls = "slo-group"})

\* formUtils.js:1192-1224: addSLOInput(sloCell, outcomeIndex, sloIndex, value);
\* outcomeIndex and sloIndex as the text the template literal gives them
\* (mutant: the duplicate test of lines 1194-1198 removed)
addSLOInputUnguarded(cell, outcomeIndex, sloIndex, value) ==
    Append(cell, [cls |-> "slo-group", prefix |-> "SLO", o |-> outcomeIndex,
                  i |-> sloIndex, value |-> value])
addSLOInput(cell, outcomeIndex, sloIndex, value) ==
    IF <<"SLO", outcomeIndex, sloIndex>> \in existingPlaceholders(cell)
    THEN cell
    ELSE Append(cell, [cls |-> "slo-group", prefix |-> "SLO", o |-> outcomeIndex,
                       i |-> sloIndex, value |-> value])

\* assessmentManager.js:168-203: addOutcomeInput(sloCell); the sub-index is
\* the number of textareas of the cell plus one
addOutcomeInput(cell, outcomeIndex) ==
    Append(cell, [cls |-> "outcome-wrapper", prefix |-> "Student Learning Outcome",
                  o |-> outcomeIndex, i |-> ToString(Len(cell) + 1),
                  value |-> Empty])

\* formUtils.js:1108-1133: the groups populateProgramAndSLOs puts into the
\* cell of outcome o: row index is o - 1, and sloData[o - 1] is the list of
\* outcome o - 1 (the keys of sloMapping start at 1), absent for the first row
populatedCell(o) ==
    IF o - 1 < 1 THEN << >>
    ELSE [n \in 1..SLOsPerOutcome |->
            [cls |-> "outcome-wrapper", prefix |-> "SLO", o |-> ToString(o),
             i |-> ToString(n), value |-> <<o - 1, n>>]]

\* eventInit.js:84-92: the n-th and later SLOs of outcome o passed to
\* addSLOInput, each with sub-index (number of .slo-group elements) + 1
RECURSIVE seedSLOs(_, _, _)
seedSLOs(cell, o, n) ==
    IF n > SLOsPerOutcome THEN cell
    ELSE seedSLOs(addSLOInput(cell, ToString(o),
                              ToString(sloGroupCount(cell) + 1), <<o, n>>),
                  o, n + 1)

\* the cell of outcome o just before the last addSLOInput call of the seeding
RECURSIVE seedSLOsBeforeLast(_, _, _)
seedSLOsBeforeLast(cell, o, n) ==
    IF n >= SLOsPerOutcome THEN cell
    ELSE seedSLOsBeforeLast(addSLOInput(cell, ToString(o),
                                        ToString(sloGroupCount(cell) + 1), <<o, n>>),
                            o, n + 1)

\* what is recorded of an addSLOInput call
addCall(cell, outcomeIndex, sloIndex, value) ==
    [op     |-> "addSLOInput",
     o      |-> outcomeIndex,
     dup    |-> <<"SLO", outcomeIndex, sloIndex>> \in existingPlaceholders(cell),
     before |-> cell,
     after  |-> addSLOInput(cell, outcomeIndex, sloIndex, value)]

\* assessmentManager.js:12-18: existingAssessments[sloNumber], the values of
\* the assessment inputs of the row whose data-slo-number is sloNumber (a
\* later row of the same number overwrites an earlier one); << >> when the
\* table has no such row
RECURSIVE existingAssessments(_, _, _)
existingAssessments(rows, sloNumber, i) ==
    IF i = 0 THEN << >>
    ELSE IF rows[i].sloNumber = sloNumber THEN rows[i].assessments
    ELSE existingAssessments(rows, sloNumber, i - 1)

\* assessmentManager.js:31-97: the row built for the k-th textarea of cell o.
\* Its number is positional, outcomeIndex.(sloIndex + 1); with no stored
\* assessments it takes the assessments the old table had under that number,
\* or one empty input
outcomeRow(rows, o, k, sloInput) ==
    LET sloNumber   == <<ToString(o), ToString(k)>>
        assessments == existingAssessments(rows, sloNumber, Len(rows))
    IN  [sloNumber   |-> sloNumber,
         o           |-> o,
         slo         |-> sloInput.value,
         assessments |-> IF Len(assessments) > 0 THEN assessments ELSE <<Empty>>]

\* assessmentManager.js:27-100: the rows of the cells o, o + 1, ..., in
\* document order
RECURSIVE outcomeRowsFrom(_, _, _)
outcomeRowsFrom(rows, cells, o) ==
    IF o > Len(cells) THEN << >>
    ELSE [k \in 1..Len(cells[o]) |-> outcomeRow(rows, o, k, cells[o][k])]
         \o outcomeRowsFrom(rows, cells, o + 1)

\* assessmentManager.js:5-103: updateLearningOutcomesAndAssessments() with no
\* stored assessments: the table is cleared and rebuilt from the SLO cells
updateLearningOutcomesAndAssessments(rows, cells) == outcomeRowsFrom(rows, cells, 1)

\* eventInit.js:31-118: handleProgramChange for the change event of the
\* program select (every program has outcomes and an SLO mapping):
\* setDefaultPolicyTextForProgram, populateProgramAndSLOs, the seeding from
\* sloMapping, initializeSLOListeners
handleProgramChange ==
    /\ policyText' = [k \in DOMAIN policyText |-> defaultPoliciesBSN[k]]
    /\ sloCells' = [o \in 1..MaxOutcome |-> seedSLOs(populatedCell(o), o, 1)]
    /\ addListeners' = [o \in 1..MaxOutcome |-> {"addSLOInput"}]
    /\ sloLast' = LET o    == MaxOutcome
                      cell == seedSLOsBeforeLast(populatedCell(o), o, 1)
                  IN  addCall(cell, ToString(o), ToString(sloGroupCount(cell) + 1),
                              <<o, SLOsPerOutcome>>)
    /\ outcomesTable' = updateLearningOutcomesAndAssessments(outcomesTable, sloCells')
    /\ UNCHANGED <<syncVars, fields, instructorsDom, rt, otherVars>>

\* groups that a click on Add has put into the table
addedGroups(cells) ==
    Cardinality({<<o, k>> \in (1..MaxOutcome) \X (1..(MaxGroups + SLOsPerOutcome + 2)) :
                    k <= Len(cells[o]) /\ cells[o][k].value = Empty})

\* A click on the Add button of cell o.  Its listeners run in the order they
\* were added: eventInit.js:414-421 (initializeSLOListeners) calls
\* addSLOInput(sloCell, index), so sloIndex is undefined; eventInit.js:584-594
\* (initializeAddOutcomeListeners) calls addOutcomeInput and then rebuilds the
\* assessment table.
ClickAdd(o) ==
    LET cell  == sloCells[o]
        cell1 == IF "addSLOInput" \in addListeners[o]
                 THEN addSLOInput(cell, ToString(o), "undefined", Empty)
                 ELSE cell
        cell2 == IF "addOutcomeInput" \in addListeners[o]
                 THEN addOutcomeInput(cell1, ToString(o))
                 ELSE cell1
        cells == [sloCells EXCEPT ![o] = cell2]
    IN  /\ addListeners[o] # {}
        /\ addedGroups(cells) <= MaxGroups
        /\ sloCells' = cells
        /\ sloLast' = IF "addSLOInput" \in addListeners[o]
                      THEN addCall(cell, ToString(o), "undefined", Empty)
                      ELSE NoSlo
        /\ outcomesTable' =
              IF "addOutcomeInput" \in addListeners[o]
              THEN updateLearningOutcomesAndAssessments(outcomesTable, cells)
              ELSE outcomesTable
        /\ UNCHANGED <<syncVars, domVars, addListeners, rt, otherVars>>

\* formUtils.js:1098-1128: the groups populateProgramAndSLOs creates; the
\* Remove listener of such a group rebuilds the assessment table (1126)
populated(g) == g.cls = "outcome-wrapper" /\ g.prefix = "SLO"

\* formUtils.js:1123-1127, 1214-1217 and assessmentManager.js:188-191: a click
\* on the Remove button of the k-th group of cell o; the siblings keep their
\* placeholders
RemoveGroup(o, k) ==
    /\ k \in 1..Len(sloCells[o])
    /\ sloCells' = [sloCells EXCEPT ![o] =
                       SubSeq(@, 1, k - 1) \o SubSeq(@, k + 1, Len(@))]
    /\ sloLast' = NoSlo
    /\ outcomesTable' =
          IF populated(sloCells[o][k])
          THEN updateLearningOutcomesAndAssessments(outcomesTable, sloCells')
          ELSE outcomesTable
    /\ UNCHANGED <<syncVars, domVars, addListeners, rt, otherVars>>

\* The page after DOMContentLoaded, before any program is selected.  The
\* outcome table is empty, or the markup holds the outcome rows, each with an
\* empty SLO cell and its Add button: initializeEventListeners has then given
\* every button the listener of initializeSLOListeners (eventInit.js:205) and
\* that of initializeAddOutcomeListeners (eventInit.js:219).
InitSLO ==
    /\ SyncAtLoad
    /\ fields = [f \in ScalarFields |-> <<"a">>]
    /\ policyText = [k \in PolicyKeys |-> <<"a">>]
    /\ instructorsDom = << >>
    /\ sloCells = EmptyCells
    /\ addListeners \in {NoListeners,
                         [o \in 1..MaxOutcome |-> {"addSLOInput", "addOutcomeInput"}]}
    /\ rt = NoRt
    /\ sloLast = NoSlo
    /\ outcomesTable = << >>
    /\ load = NoLoad
    /\ WidgetsIdle

NextSLO ==
    \/ handleProgramChange
    \/ \E o \in 1..MaxOutcome : ClickAdd(o)
    \/ \E o \in 1..MaxOutcome, k \in 1..(MaxGroups + SLOsPerOutcome) : RemoveGroup(o, k)

SpecSLO == InitSLO /\ [][NextSLO]_vars

\* the text of an assessment written for the SLO that a row shows
assessmentFor(row) == <<"assessment of", row.o, row.slo>>

\* The user types, into the first assessment input of row r, an assessment of
\* the SLO the row shows.
AssessmentInput(r) ==
    /\ r \in 1..Len(outcomesTable)
    /\ outcomesTable[r].assessments[1] # assessmentFor(outcomesTable[r])
    /\ outcomesTable' = [outcomesTable EXCEPT
                            ![r].assessments[1] = assessmentFor(outcomesTable[r])]
    /\ UNCHANGED <<syncVars, domVars, sloCells, addListeners, sloLast, rt, otherVars>>

\* The SLO column and the assessment table of a page on which a program is
\* selected, SLOs are removed and assessments are typed.
InitOutcomes == InitSLO

NextOutcomes ==
    \/ handleProgramChange
    \/ \E o \in 1..MaxOutcome, k \in 1..(MaxGroups + SLOsPerOutcome) : RemoveGroup(o, k)
    \/ \E r \in 1..(MaxOutcome * SLOsPerOutcome) : AssessmentInput(r)

SpecOutcomes == InitOutcomes /\ [][NextOutcomes]_vars

----------------------------------------------------------------------------
\* The weighting table (formUtils.js, eventInit.js).  A row is the name of its
\* weight input, the input's value and the module whose updateTotalWeight is
\* the row's input listener.

MaxRows == 3
Weights == {30, 40, 50, 60}
WeightValues == {Empty} \cup {<<w>> : w \in Weights}

\* parseFloat(input.value) || 0
parseWeight(value) == IF value = Empty THEN 0 ELSE value[1]

RECURSIVE sumWeights(_)
sumWeights(rows) ==
    IF rows = << >> THEN 0
    ELSE parseWeight(Head(rows).value) + sumWeights(Tail(rows))

\* the inputs a CSS attribute selector picks: [name="weight"] is an exact
\* match, [name^="weight"] a prefix match
selectExact(rows) == SelectSeq(rows, LAMBDA r : r.name = "weight")
selectPrefix(rows) ==
    SelectSeq(rows, LAMBDA r : r.name \in {"weight", "weight[]", "weighting[i][weight]"})

\* `${totalWeight}%` and the colour of the total
displayTotal(totalWeight) ==
    [textContent |-> <<ToString(totalWeight), "%">>,
     color       |-> IF totalWeight > 100 THEN "red" ELSE ""]

\* eventInit.js:785-809: sums the inputs named exactly "weight"
updateTotalWeight(rows) == displayTotal(sumWeights(selectExact(rows)))

\* formUtils.js:1751-1769: sums the inputs whose name starts with "weight"
updateTotalWeightFormUtils(rows) == displayTotal(sumWeights(selectPrefix(rows)))

totalBy(listener, rows) ==
    IF listener = "eventInit" THEN updateTotalWeight(rows)
    ELSE updateTotalWeightFormUtils(rows)

weightingAfter(rows, listener, op) ==
    LET d == totalBy(listener, rows)
    IN  [rows |-> rows, textContent |-> d.textContent, color |-> d.color, last |-> op]

\* formUtils.js:1333-1449: the rows are rebuilt from the document, their inputs
\* named "weight"; one blank row when there is none; the total is updated
updateWeightingDetailsAndAssignments(ws) ==
    LET rows == IF ws = << >>
                THEN <<[name |-> "weight", value |-> Empty, listener |-> "formUtils"]>>
                ELSE [i \in 1..Len(ws) |->
                        [name |-> "weight", value |-> ws[i], listener |-> "formUtils"]]
    IN  /\ weighting' = weightingAfter(rows, "formUtils", "populate")
        /\ UNCHANGED <<syncVars, domVars, sloVars, rt, load, modules, quillInstances, quillDom, gateway, richText, validation>>

\* formUtils.js:1706-1747: one row per assignment, its weight left empty
populateWeightingDetailsFromAssessments(n) ==
    LET rows == [i \in 1..n |->
                    [name |-> "weighting[i][weight]", value |-> Empty,
                     listener |-> "formUtils"]]
    IN  /\ weighting' = weightingAfter(rows, "formUtils", "populate")
        /\ UNCHANGED <<syncVars, domVars, sloVars, rt, load, modules, quillInstances, quillDom, gateway, richText, validation>>

\* eventInit.js:513-532: the click listener of the Add Assignment button
\* appends a row whose weight input is named "weight[]"
AddAssignment ==
    /\ Len(weighting.rows) < MaxRows
    /\ weighting' = [weighting EXCEPT
                        !.rows = Append(@, [name |-> "weight[]", value |-> Empty,
                                            listener |-> "eventInit"]),
                        !.last = "add"]
    /\ UNCHANGED <<syncVars, domVars, sloVars, rt, load, modules, quillInstances, quillDom, gateway, richText, validation>>

\* the user types a weight into row i; the row's input listener runs
WeightInput(i, value) ==
    /\ i \in 1..Len(weighting.rows)
    /\ LET rows == [weighting.rows EXCEPT ![i].value = value]
       IN  weighting' = weightingAfter(rows, weighting.rows[i].listener, "input")
    /\ UNCHANGED <<syncVars, domVars, sloVars, rt, load, modules, quillInstances, quillDom, gateway, richText, validation>>

StoredWeights == UNION {[1..n -> WeightValues] : n \in 0..(MaxRows - 1)}

InitWeight ==
    /\ sessionUserId = TRUE
    /\ urlSyllabusId = 0
    /\ sessionSyllabusId = 0
    /\ hiddenSyllabusId = 0
    /\ previousFormData = Null
    /\ autoSaveIntervalId = 1
    /\ statusText = ""
    /\ inflight = EmptyBag
    /\ serverDocs = {}
    /\ nextId = 1
    /\ lastCall = NoCall
    /\ createdId = 0
    /\ everConfirmed = FALSE
    /\ failedAttempt = FALSE
    /\ sinceAutosave = "none"
    /\ stale404 = FALSE
    /\ fields = [f \in ScalarFields |-> Empty]
    /\ policyText = [k \in PolicyKeys |-> Empty]
    /\ instructorsDom = << >>
    /\ sloCells = EmptyCells
    /\ addListeners = NoListeners
    /\ sloLast = NoSlo
    /\ outcomesTable = << >>
    /\ rt = NoRt
    /\ load = NoLoad
    /\ weighting = NoWeighting
    /\ modules = NoModules
    /\ quillInstances = << >>
    /\ quillDom = NoQuillDom
    /\ gateway = NoGateway
    /\ richText = NoRichText
    /\ validation = NoValidation

NextWeight ==
    \/ \E ws \in StoredWeights : updateWeightingDetailsAndAssignments(ws)
    \/ \E n \in 0..(MaxRows - 1) : populateWeightingDetailsFromAssessments(n)
    \/ AddAssignment
    \/ \E i \in 1..MaxRows, value \in WeightValues : WeightInput(i, value)

SpecWeight == InitWeight /\ [][NextWeight]_vars

----------------------------------------------------------------------------
\* The module manager (moduleManager.js, kept in the source tree at the head
\* of public/js/resetPasswordScript.js).  A module block is its number and the
\* start date its dates were computed from.

MaxModules == 20
MaxRemovable == 1
StartDates == {"", "2025-01-06"}

moduleBlock(moduleNumber, startDate) == [id |-> moduleNumber, startDate |-> startDate]

\* moduleManager.js:68-76: the two tests of the Add Module listener
mayAddUnguarded(moduleCount, startDate) == TRUE
mayAdd(moduleCount, startDate) == ~(moduleCount > MaxModules) /\ startDate # ""

\* moduleManager.js:111-146
addModule(blocks, moduleNumber, startDate) ==
    Append(blocks, moduleBlock(moduleNumber, startDate))

\* moduleManager.js:64-79: the click listener of the Add Module button
AddModuleClick ==
    LET moduleCount == Len(modules.blocks) + 1
        startDate   == modules.datePicker
    IN  /\ modules' = [modules EXCEPT
                          !.blocks = IF mayAdd(moduleCount, startDate)
                                     THEN addModule(@, moduleCount, startDate)
                                     ELSE @,
                          !.last = [op |-> "add", before |-> modules.blocks,
                                    startDate |-> startDate]]
        /\ UNCHANGED <<syncVars, domVars, sloVars, rt, load, weighting, quillInstances, quillDom, gateway, richText, validation>>

\* moduleManager.js:85-108: the container is cleared and refilled, unless no
\* start date is selected
generateModules(moduleSelect, datePicker) ==
    [modules EXCEPT
        !.moduleSelect = moduleSelect,
        !.datePicker = datePicker,
        !.blocks = IF datePicker = "" THEN @
                   ELSE [i \in 1..moduleSelect |-> moduleBlock(i, datePicker)],
        !.last = [op |-> "generate"]]

\* moduleManager.js:58: the change listener of the module select
ModuleSelectChange(n) ==
    /\ modules' = generateModules(n, modules.datePicker)
    /\ UNCHANGED <<syncVars, domVars, sloVars, rt, load, weighting, quillInstances, quillDom, gateway, richText, validation>>

\* moduleManager.js:59-60: the change listener of the date picker
DatePickerChange(d) ==
    /\ d # modules.datePicker
    /\ modules' = generateModules(modules.moduleSelect, d)
    /\ UNCHANGED <<syncVars, domVars, sloVars, rt, load, weighting, quillInstances, quillDom, gateway, richText, validation>>

\* the position of the element getElementById(`module${n}`) finds: the first
\* block of that id, 0 if there is none
RECURSIVE firstWithId(_, _, _)
firstWithId(blocks, n, i) ==
    IF i > Len(blocks) THEN 0
    ELSE IF blocks[i].id = n THEN i
    ELSE firstWithId(blocks, n, i + 1)

\* moduleManager.js:175-181, the click listener of a block's Remove Module
\* button
removeModule(n) ==
    LET i == firstWithId(modules.blocks, n, 1)
    IN  /\ i # 0
        /\ modules' = [modules EXCEPT
                          !.blocks = SubSeq(@, 1, i - 1) \o SubSeq(@, i + 1, Len(@)),
                          !.last = [op |-> "remove"]]
        /\ UNCHANGED <<syncVars, domVars, sloVars, rt, load, weighting, quillInstances, quillDom, gateway, richText, validation>>

InitModules == InitWeight

NextModules ==
    \/ AddModuleClick
    \/ \E n \in 1..MaxModules : ModuleSelectChange(n)
    \/ \E d \in StartDates : DatePickerChange(d)
    \/ \E n \in 1..MaxRemovable : removeModule(n)

SpecModules == InitModules /\ [][NextModules]_vars

----------------------------------------------------------------------------
\* The rich-text bridge (quillUtils.js, kept in the source tree as
\* unnamed/part_003).  A registry entry is a field id and the editor created
\* for it; editors are numbered in the order of their creation.

MaxEditors == 3
EditorIds == {"courseDescription", "instructor1OfficeHours"}

\* quillUtils.js:62 and 141: the position of the first entry of the id, 0 when
\* there is none (find gives undefined, findIndex -1)
findIndexNever(instances, id) == 0
RECURSIVE findIndexFrom(_, _, _)
findIndexFrom(instances, id, i) ==
    IF i > Len(instances) THEN 0
    ELSE IF instances[i].id = id THEN i
    ELSE findIndexFrom(instances, id, i + 1)
findIndex(instances, id) == findIndexFrom(instances, id, 1)

\* quillUtils.js:61-95: the value returned is the editor, or "null"
initializeQuillEditor(id) ==
    LET i == findIndex(quillInstances, id)
    IN  IF i # 0
        THEN /\ quillDom' = [quillDom EXCEPT
                                !.last = [op |-> "attach", id |-> id,
                                          before |-> quillInstances,
                                          returned |-> <<quillInstances[i].quill>>]]
             /\ UNCHANGED quillInstances
        ELSE IF id \notin quillDom.elements
        THEN /\ quillDom' = [quillDom EXCEPT
                                !.last = [op |-> "attach", id |-> id,
                                          before |-> quillInstances,
                                          returned |-> <<"null">>]]
             /\ UNCHANGED quillInstances
        ELSE /\ quillDom.created < MaxEditors
             /\ quillInstances' = Append(quillInstances,
                                         [id |-> id, quill |-> quillDom.created + 1])
             /\ quillDom' = [quillDom EXCEPT
                                !.created = @ + 1,
                                !.last = [op |-> "attach", id |-> id,
                                          before |-> quillInstances,
                                          returned |-> <<quillDom.created + 1>>]]

AttachEditor(id) ==
    /\ initializeQuillEditor(id)
    /\ UNCHANGED <<syncVars, domVars, sloVars, rt, load, weighting, modules, gateway, richText, validation>>

\* quillUtils.js:140-150
destroyQuillEditor(id) ==
    LET instanceIndex == findIndex(quillInstances, id)
    IN  /\ quillInstances' =
              IF instanceIndex # 0
              THEN SubSeq(quillInstances, 1, instanceIndex - 1)
                   \o SubSeq(quillInstances, instanceIndex + 1, Len(quillInstances))
              ELSE quillInstances
        /\ quillDom' = [quillDom EXCEPT !.last = [op |-> "detach", id |-> id]]
        /\ UNCHANGED <<syncVars, domVars, sloVars, rt, load, weighting, modules, gateway, richText, validation>>

\* the editor container and the textarea of a field enter or leave the DOM
\* (formUtils.js:1787-1830 rebuilds the instructor blocks)
ToggleEditorElement(id) ==
    /\ quillDom' = [quillDom EXCEPT
                       !.elements = IF id \in @ THEN @ \ {id} ELSE @ \cup {id},
                       !.orphans = IF id \in quillDom.elements
                                   THEN @ \cup {quillInstances[i].quill :
                                                  i \in {j \in 1..Len(quillInstances) :
                                                            quillInstances[j].id = id}}
                                   ELSE @,
                       !.last = [op |-> "dom"]]
    /\ UNCHANGED <<syncVars, domVars, sloVars, rt, load, weighting, modules,
                   quillInstances, gateway, richText, validation>>

InitQuill == InitWeight

NextQuill ==
    \/ \E id \in EditorIds : AttachEditor(id)
    \/ \E id \in EditorIds : destroyQuillEditor(id)
    \/ \E id \in EditorIds : ToggleEditorElement(id)

SpecQuill == InitQuill /\ [][NextQuill]_vars

----------------------------------------------------------------------------
\* The Remote Gateway (syllabusAPI.js, kept in the source tree in
\* public/js/helper.js from line 75).  A call settles as a value the caller's
\* await yields ("resolved") or as an error it throws ("rejected").

GatewayCalls == {"getSyllabus", "saveSyllabus", "updateSyllabus",
                 "submitSyllabus", "retrieveSyllabi"}
Statuses == {200, 201, 400, 404, 500}
ErrorTexts == {"", "Syllabus store unavailable"}

\* Response.ok
responseOk(status) == status >= 200 /\ status <= 299

resolved(value) == [kind |-> "resolved", value |-> value]
rejected(message) == [kind |-> "rejected", message |-> message]

\* a try block whose catch only logs: the function ends without a return
\* statement and its promise resolves with undefined
caughtAndLogged == resolved("undefined")

\* helper.js:78-90
getSyllabus(status, bodyIsJson) ==
    IF ~responseOk(status) THEN caughtAndLogged
    ELSE IF ~bodyIsJson THEN caughtAndLogged
    ELSE resolved("syllabus")

\* helper.js:93-114
saveSyllabus(status, bodyIsJson) ==
    IF ~responseOk(status) THEN caughtAndLogged
    ELSE IF ~bodyIsJson THEN caughtAndLogged
    ELSE resolved("result")

\* helper.js:117-169: the catch re-throws
updateSyllabus(validArgs, status, bodyIsJson, errorText) ==
    LET details == IF bodyIsJson THEN errorText ELSE "Unable to parse error details from response"
    IN  IF ~validArgs
        THEN rejected(<<"Invalid parameters: ID and formData are required and must be valid.">>)
        ELSE IF ~responseOk(status)
        THEN IF status = 400
             THEN rejected(<<"Validation error: ",
                             IF details # "" THEN details ELSE "Invalid data provided">>)
             ELSE IF status = 404
             THEN rejected(<<"Syllabus not found. It may have been deleted or the ID is incorrect.">>)
             ELSE rejected(<<"Unexpected error occurred: ",
                             IF details # "" THEN details ELSE "statusText">>)
        ELSE IF ~bodyIsJson THEN rejected(<<"SyntaxError">>)
        ELSE resolved("result")

\* helper.js:173-194
submitSyllabusCall(status, bodyIsJson) ==
    IF ~responseOk(status) THEN caughtAndLogged
    ELSE IF ~bodyIsJson THEN caughtAndLogged
    ELSE resolved("result")

\* helper.js:197-209
retrieveSyllabi(status, bodyIsJson) ==
    IF ~responseOk(status) THEN caughtAndLogged
    ELSE IF ~bodyIsJson THEN caughtAndLogged
    ELSE resolved("syllabi")

settle(c) ==
    CASE c.fn = "getSyllabus"     -> getSyllabus(c.status, c.bodyIsJson)
      [] c.fn = "saveSyllabus"    -> saveSyllabus(c.status, c.bodyIsJson)
      [] c.fn = "updateSyllabus"  -> updateSyllabus(c.validArgs, c.status, c.bodyIsJson, c.errorText)
      [] c.fn = "submitSyllabus"  -> submitSyllabusCall(c.status, c.bodyIsJson)
      [] c.fn = "retrieveSyllabi" -> retrieveSyllabi(c.status, c.bodyIsJson)

\* the calls considered and the responses they can get; only updateSyllabus
\* tests its arguments
GatewayInputs ==
    {c \in [phase : {"called"}, fn : GatewayCalls, validArgs : BOOLEAN,
            status : Statuses, bodyIsJson : BOOLEAN, errorText : ErrorTexts] :
        (c.fn # "updateSyllabus") => c.validArgs}

\* a caller awaits a gateway function
GatewayCall(c) ==
    /\ gateway.phase # "called"
    /\ gateway' = c
    /\ UNCHANGED <<syncVars, domVars, sloVars, rt, load, weighting, modules,
                   quillInstances, quillDom, richText, validation>>

\* the response arrives and the awaited promise settles
GatewaySettle ==
    /\ gateway.phase = "called"
    /\ gateway' = [phase |-> "settled", call |-> gateway, outcome |-> settle(gateway)]
    /\ UNCHANGED <<syncVars, domVars, sloVars, rt, load, weighting, modules,
                   quillInstances, quillDom, richText, validation>>

InitGateway == InitWeight

NextGateway ==
    \/ \E c \in GatewayInputs : GatewayCall(c)
    \/ GatewaySettle

SpecGateway == InitGateway /\ [][NextGateway]_vars

----------------------------------------------------------------------------
\* The Sync Engine on a page whose repeatable sections are edited: the SLO
\* column and the weighting table change between autosave ticks.

InitSections == InitSLO

NextSections ==
    \/ \E o \in 1..MaxOutcome : ClickAdd(o)
    \/ \E o \in 1..MaxOutcome, k \in 1..(MaxGroups + SLOsPerOutcome) : RemoveGroup(o, k)
    \/ AddAssignment
    \/ AutosaveTick
    \/ \E req \in BagToSet(inflight), o \in Outcomes : SaveResponse(req, o)

SpecSections == InitSections /\ [][NextSections]_vars

----------------------------------------------------------------------------
\* The office-hours editors of the instructor list (formUtils.js
\* populateInstructors, eventInit.js initializeInstructorFieldListeners).

MaxAddInstructors == 3
MaxRegenerated == 6

\* `instructor${k}OfficeHours`
officeHoursId(k) == <<"instructor", ToString(k), "OfficeHours">>
OfficeHoursIds == {officeHoursId(k) : k \in 1..MaxAddInstructors}

\* the editors the registry holds for the ids of S
editorsOf(instances, S) ==
    {instances[i].quill : i \in {j \in 1..Len(instances) : instances[j].id \in S}}

\* quillUtils.js:61-95 for an id whose container and textarea are in the DOM,
\* on the pair of the registry and the count of editors created so far
attached(reg, id) ==
    IF findIndex(reg.instances, id) # 0 THEN reg
    ELSE [instances |-> Append(reg.instances, [id |-> id, quill |-> reg.created + 1]),
          created   |-> reg.created + 1]

\* quillUtils.js:140-150 on the same pair
detached(reg, id) ==
    LET i == findIndex(reg.instances, id)
    IN  IF i = 0 THEN reg
        ELSE [reg EXCEPT !.instances = SubSeq(@, 1, i - 1) \o SubSeq(@, i + 1, Len(@))]

\* formUtils.js:1792-1828: for each instructor, destroyQuillEditor, a new
\* block, initializeQuillEditor
RECURSIVE populateEditors(_, _, _)
populateEditors(reg, k, n) ==
    IF k > n THEN reg
    ELSE populateEditors(attached(detached(reg, officeHoursId(k)), officeHoursId(k)),
                         k + 1, n)

\* eventInit.js:685-703: for each instructor, a new block and (once the
\* container is found in the DOM) initializeQuillEditor
RECURSIVE changeEditors(_, _, _)
changeEditors(reg, k, n) ==
    IF k > n THEN reg
    ELSE changeEditors(attached(reg, officeHoursId(k)), k + 1, n)

\* instructorsContainer.innerHTML = '' followed by the n new blocks: the
\* editors mounted on the old containers are orphaned
regenerated(reg, n, op) ==
    /\ quillInstances' = reg.instances
    /\ quillDom' = [elements |-> (quillDom.elements \ OfficeHoursIds)
                                    \cup {officeHoursId(k) : k \in 1..n},
                    created  |-> reg.created,
                    orphans  |-> quillDom.orphans
                                    \cup editorsOf(quillInstances, OfficeHoursIds),
                    last     |-> [op |-> op, n |-> n]]
    /\ UNCHANGED <<syncVars, domVars, sloVars, rt, load, weighting, modules, gateway, richText, validation>>

\* formUtils.js:1777-1829 for a list of n instructors
PopulateInstructorEditors(n) ==
    /\ quillDom.created + n <= MaxRegenerated
    /\ regenerated(populateEditors([instances |-> quillInstances,
                                    created |-> quillDom.created], 1, n),
                   n, "populateInstructors")

\* eventInit.js:670-704: the change listener of the addInstructors select
AddInstructorsChange(n) ==
    /\ quillDom.created + n <= MaxRegenerated
    /\ regenerated(changeEditors([instances |-> quillInstances,
                                  created |-> quillDom.created], 1, n),
                   n, "addInstructors")

InitInstructorEditors == InitWeight

NextInstructorEditors ==
    \/ \E n \in 0..MaxAddInstructors : PopulateInstructorEditors(n)
    \/ \E n \in 0..MaxAddInstructors : AddInstructorsChange(n)

SpecInstructorEditors == InitInstructorEditors /\ [][NextInstructorEditors]_vars

----------------------------------------------------------------------------
\* Document assembly and the rich-text editors.  The rich-text field followed
\* is courseDescription: fields["courseDescription"] is its hidden textarea,
\* richText.editor the content of its editor (quill.root.innerHTML).

RichField == "courseDescription"

\* quillUtils.js:101-110: the textarea takes the trimmed editor content
syncQuillEditors(elements) == [elements EXCEPT ![RichField] = trim(richText.editor)]

\* collectFormData over the elements given
collectFrom(elements) == [collectFormData EXCEPT !.courseDescription = elements[RichField]]

assembly(fn, synced, formData) ==
    [op |-> "assemble", fn |-> fn, synced |-> synced,
     value |-> formData.courseDescription, editor |-> richText.editor]

\* quillUtils.js:87-89: the user edits in the editor; the text-change
\* listener copies the content to the textarea
EditorTextChange(v) ==
    /\ v # richText.editor
    /\ richText' = [editor |-> v, last |-> [op |-> "text-change"]]
    /\ fields' = [fields EXCEPT ![RichField] = trim(v)]
    /\ UNCHANGED <<syncVars, instructorsDom, policyText, sloVars, rt, load,
                   weighting, modules, quillInstances, quillDom, gateway, validation>>

\* formUtils.js populateFields / helper.js setElementValue: population writes
\* the stored text to the textarea; the editor is not told
SetElementValue(v) ==
    /\ v # fields[RichField]
    /\ fields' = [fields EXCEPT ![RichField] = v]
    /\ richText' = [richText EXCEPT !.last = [op |-> "populate"]]
    /\ UNCHANGED <<syncVars, instructorsDom, policyText, sloVars, rt, load,
                   weighting, modules, quillInstances, quillDom, gateway, validation>>

\* formSubmit.js:10-19, and the submit listeners eventInit.js:331-345 and
\* formScript.js:39-50: syncQuillEditors, then collectFormData
prepareFormDataForSubmission ==
    LET synced == syncQuillEditors(fields)
    IN  /\ fields' = synced
        /\ richText' = [richText EXCEPT
                           !.last = assembly("prepareFormDataForSubmission", TRUE,
                                             collectFrom(synced))]
        /\ UNCHANGED <<syncVars, instructorsDom, policyText, sloVars, rt, load,
                       weighting, modules, quillInstances, quillDom, gateway, validation>>

\* the PUT /syllabus/update/:id of saveFormAfterProgramChange and
\* submitFormData
formUpdateRequest(fn) ==
    [kind |-> fn, method |-> "PUT", id |-> urlSyllabusId, autosave |-> FALSE]

\* formUtils.js:775-778 with 989-1013: the change listener that initializeForm
\* gives the program select.  Its handleProgramChange() call has no event and
\* returns at eventInit.js:31-34; saveFormAfterProgramChange assembles the
\* document and sends it
saveFormAfterProgramChange ==
    /\ IF urlSyllabusId = 0
       THEN UNCHANGED <<inflight, richText, validation>>
       ELSE /\ BagCardinality(inflight) < MaxInFlight
            /\ inflight' = inflight (+) SetToBag({formUpdateRequest("saveFormAfterProgramChange")})
            /\ richText' = [richText EXCEPT
                               !.last = assembly("saveFormAfterProgramChange", FALSE,
                                                 collectFrom(fields))]
    /\ UNCHANGED <<sessionUserId, sessionSyllabusId, urlSyllabusId,
                   hiddenSyllabusId, previousFormData, autoSaveIntervalId,
                   statusText, serverDocs, nextId, lastCall, createdId,
                   everConfirmed, failedAttempt, sinceAutosave, stale404>>
    /\ UNCHANGED <<domVars, sloVars, rt, load, weighting, modules,
                   quillInstances, quillDom, gateway, validation>>

\* formUtils.js:1961-1986: the document is assembled before the id is tested
submitFormData ==
    /\ richText' = [richText EXCEPT
                       !.last = assembly("submitFormData", FALSE, collectFrom(fields))]
    /\ IF urlSyllabusId = 0
       THEN UNCHANGED inflight
       ELSE /\ BagCardinality(inflight) < MaxInFlight
            /\ inflight' = inflight (+) SetToBag({formUpdateRequest("submitFormData")})
    /\ UNCHANGED <<sessionUserId, sessionSyllabusId, urlSyllabusId,
                   hiddenSyllabusId, previousFormData, autoSaveIntervalId,
                   statusText, serverDocs, nextId, lastCall, createdId,
                   everConfirmed, failedAttempt, sinceAutosave, stale404>>
    /\ UNCHANGED <<domVars, sloVars, rt, load, weighting, modules,
                   quillInstances, quillDom, gateway, validation>>

\* formUtils.js:1004-1012 and 1977-1985: the response is only logged
FormUpdateResponse(req) ==
    /\ BagIn(req, inflight)
    /\ req.kind \in {"saveFormAfterProgramChange", "submitFormData"}
    /\ inflight' = inflight (-) SetToBag({req})
    /\ UNCHANGED <<sessionUserId, sessionSyllabusId, urlSyllabusId,
                   hiddenSyllabusId, previousFormData, autoSaveIntervalId,
                   statusText, serverDocs, nextId, lastCall, createdId,
                   everConfirmed, failedAttempt, sinceAutosave, stale404>>
    /\ UNCHANGED <<domVars, sloVars, rt, otherVars>>

\* a page opened with or without ?syllabusId, its editors attached to empty
\* textareas
InitAssembly ==
    /\ sessionUserId = TRUE
    /\ urlSyllabusId \in {0, 1}
    /\ sessionSyllabusId = urlSyllabusId
    /\ hiddenSyllabusId = urlSyllabusId
    /\ previousFormData = Null
    /\ autoSaveIntervalId = 1
    /\ statusText = ""
    /\ inflight = EmptyBag
    /\ serverDocs = IF urlSyllabusId = 0 THEN {} ELSE {1}
    /\ nextId = 2
    /\ lastCall = NoCall
    /\ createdId = 0
    /\ everConfirmed = FALSE
    /\ failedAttempt = FALSE
    /\ sinceAutosave = "none"
    /\ stale404 = FALSE
    /\ fields = [f \in ScalarFields |-> Empty]
    /\ policyText = [k \in PolicyKeys |-> Empty]
    /\ instructorsDom = << >>
    /\ sloCells = EmptyCells
    /\ addListeners = NoListeners
    /\ sloLast = NoSlo
    /\ outcomesTable = << >>
    /\ rt = NoRt
    /\ load = NoLoad
    /\ WidgetsIdle

NextAssembly ==
    \/ \E v \in Strs : EditorTextChange(v)
    \/ \E v \in Strs : SetElementValue(v)
    \/ prepareFormDataForSubmission
    \/ saveFormAfterProgramChange
    \/ submitFormData
    \/ \E req \in BagToSet(inflight) : FormUpdateResponse(req)

SpecAssembly == InitAssembly /\ [][NextAssembly]_vars

----------------------------------------------------------------------------
\* The server's required-field validation (middlewares/validation.js).  A
\* request body is the text of its autosave member ("true", "false" or
\* "absent") and the members that carry the document; a document is a
\* function from the fields it has to "" or a text.

RequiredFields == {"courseTitle", "programSelect", "courseNumber"}
Documents == UNION {[S -> {"", "x"}] : S \in SUBSET RequiredFields}
BodyShapes == {"formData", "syllabusData"}

\* !syllabusData[field]
falsy(document, field) == field \notin DOMAIN document \/ document[field] = ""

\* validation.js:24-39.  The middleware reads req.body.formData only; a
\* property read on undefined throws a TypeError, which Express answers with
\* its error handler (500) without calling next
validateRequiredFields(body) ==
    IF body.autosave = "true" THEN "next"
    ELSE IF "formData" \notin DOMAIN body.members THEN "throws"
    ELSE IF {f \in RequiredFields : falsy(body.members["formData"], f)} # {}
    THEN "400"
    ELSE "next"

\* the bodies the clients send: the document as formData (formSubmit.js:82-87,
\* dashboardScript.js:10-14) or as syllabusData (formSubmit.js:188)
RequestBodies ==
    {[autosave |-> a, members |-> [m \in {shape} |-> d]] :
        a \in {"true", "false", "absent"}, shape \in BodyShapes, d \in Documents}

\* a request reaches the middleware
ValidationRequest(body) ==
    /\ validation.phase # "received"
    /\ validation' = [phase |-> "received", body |-> body]
    /\ UNCHANGED <<syncVars, domVars, sloVars, rt, load, weighting, modules,
                   quillInstances, quillDom, gateway, richText>>

\* the middleware runs
ValidationRun ==
    /\ validation.phase = "received"
    /\ validation' = [phase |-> "done", body |-> validation.body,
                      outcome |-> validateRequiredFields(validation.body)]
    /\ UNCHANGED <<syncVars, domVars, sloVars, rt, load, weighting, modules,
                   quillInstances, quillDom, gateway, richText>>

InitValidation == InitWeight

NextValidation ==
    \/ \E body \in RequestBodies : ValidationRequest(body)
    \/ ValidationRun

SpecValidation == InitValidation /\ [][NextValidation]_vars

----------------------------------------------------------------------------
\* Properties of the Sync Engine, checked under Spec.

\* the save requests (of saveFormData) whose response is outstanding
SaveRequestsInFlight ==
    LET S == {r \in BagToSet(inflight) : r.kind = "save"}
    IN  BagCardinality([r \in S |-> CopiesIn(r, inflight)])

\* C1: at most one save request is in flight at any time; a save attempt that
\* starts while a previous save's response is outstanding sends nothing.
C1_AtMostOneSaveInFlight == SaveRequestsInFlight <= 1

\* C2: once a create has succeeded and returned an id (and that document still
\* exists), every later save, manual save or form submit that sends a request
\* sends an update to that id, never another create.
C2_UpdatesAfterCreate ==
    (lastCall.sent /\ lastCall.afterCreate /\ createdId \in serverDocs)
        => lastCall.toCreated

\* C3: the save attempt that follows a 404 answer to an update issues a create,
\* not another update to the stale id.
C3_CreateAfter404 ==
    (lastCall.kind \in {"autosave", "manual"} /\ lastCall.after404
        /\ lastCall.sent)
        => lastCall.method = "POST"

\* C4: an autosave that directly follows an autosave, with no DOM change in
\* between, issues no network call.
C4_AutosaveNoopWhenUnchanged ==
    (lastCall.kind = "autosave" /\ lastCall.clean) => ~lastCall.sent

C4_Witness ==
    /\ lastCall.kind = "autosave"
    /\ lastCall.clean
    /\ lastCall.userOk
    /\ ~lastCall.sent
    /\ previousFormData = collectFormData

\* C5: after a failed save attempt the snapshot is as it was, so the next
\* autosave tick with the same document, which the store has never confirmed,
\* sends it again instead of skipping it as unchanged.
C5_RetryAfterFailure ==
    (lastCall.kind = "autosave" /\ lastCall.userOk /\ lastCall.retry)
        => lastCall.sent

\* C6: a manual save of a document with an empty required scalar field sends
\* nothing; an autosave validates nothing and sends a changed document whatever
\* its scalar fields hold.
C6_ValidationOnlyOnManualSave ==
    /\ (lastCall.kind = "manual" /\ lastCall.missing) => ~lastCall.sent
    /\ (lastCall.kind = "autosave" /\ lastCall.userOk /\ lastCall.changed)
           => lastCall.sent

C6_Witness ==
    /\ lastCall.kind = "manual"
    /\ lastCall.userOk
    /\ lastCall.missing
    /\ ~lastCall.sent
    /\ requiredFields(collectFormData) # {}

\* C7: the failure of a save, manual or autosave, is surfaced as status text:
\* while the last completed save attempt is a failed one, the status element
\* shows the failure message.
C7_FailureSurfacedAsStatus ==
    failedAttempt => statusText = "Autosave failed. Please check your connection."

----------------------------------------------------------------------------
\* Properties of the round trip, checked under SpecRT.

\* C8: assembling the form, populating the form from the assembled document
\* and assembling again yields a document equal to the first one.
C8_RoundTripStable == rt.phase = "done" => rt.d2 = rt.d1

----------------------------------------------------------------------------
\* Properties of the SLO column, checked under SpecSLO.

\* C9: an addSLOInput call whose placeholder 'SLO o.i' is already present in
\* the cell leaves the cell as it was: same children, same number of groups,
\* same values.
C9_DuplicateAddRejected ==
    (sloLast.op = "addSLOInput" /\ sloLast.dup) => sloLast.after = sloLast.before

C9_Witness ==
    /\ sloLast.op = "addSLOInput"
    /\ sloLast.dup
    /\ sloLast.before # << >>
    /\ sloCells[MaxOutcome] = sloLast.before

----------------------------------------------------------------------------
\* Properties of loading, checked under SpecLoad.

\* the texts that are a default of program P for policy k
defaultTextsOf(P, k) == {defaultPolicies(P)[k], getDefaultPolicies(P)[k]}

\* C11: once every request for the loaded document (stored program P) has
\* been answered and its answer populated, every policy field holds the stored
\* value if there is one, and else a default text of program P.
C11_PolicyPriority ==
    (load.phase = "page" /\ load.populated = Loaders) =>
        \A k \in PolicyKeys :
            LET stored == load.stored.policiesAndServices
                P      == load.stored.programSelect[1]
            IN  IF k \in DOMAIN stored THEN policyText[k] = stored[k]
                ELSE policyText[k] \in defaultTextsOf(P, k)

----------------------------------------------------------------------------
\* Properties of the weighting table, checked under SpecWeight.

\* C12: after a weight input has changed, the displayed total is the sum of
\* the weights of all rows of the table, whether built by population or
\* appended through Add Assignment, and it is flagged exactly when the sum
\* exceeds 100.
C12_TotalIsSumOfAllRows ==
    weighting.last = "input" =>
        /\ weighting.textContent = <<ToString(sumWeights(weighting.rows)), "%">>
        /\ (weighting.color = "red") <=> (sumWeights(weighting.rows) > 100)

----------------------------------------------------------------------------
\* Properties of the module manager, checked under SpecModules.

\* C13: an add-module attempt made when 20 module blocks exist, or when no
\* start date is selected, leaves the modules container unchanged, and the
\* container never holds more than 20 module blocks.
C13_AddModuleCapped ==
    /\ Len(modules.blocks) <= MaxModules
    /\ (/\ modules.last.op = "add"
        /\ (Len(modules.last.before) >= MaxModules \/ modules.last.startDate = ""))
            => modules.blocks = modules.last.before

C13_Witness ==
    /\ modules.last.op = "add"
    /\ Len(modules.last.before) = MaxModules
    /\ modules.last.startDate # ""

----------------------------------------------------------------------------
\* Properties of the rich-text bridge, checked under SpecQuill.

entriesOf(id) == {i \in 1..Len(quillInstances) : quillInstances[i].id = id}

\* C14: whatever the sequence of attach and detach calls, the registry holds
\* at most one entry per field id, and an attach on an attached id returns the
\* existing editor and leaves the registry as it was.
C14_AttachIdempotent ==
    /\ \A id \in EditorIds : Cardinality(entriesOf(id)) <= 1
    /\ IF quillDom.last.op # "attach" THEN TRUE
       ELSE \A i \in 1..Len(quillDom.last.before) :
               quillDom.last.before[i].id = quillDom.last.id
                   => /\ quillInstances = quillDom.last.before
                      /\ quillDom.last.returned = <<quillDom.last.before[i].quill>>

C14_Witness ==
    /\ quillDom.last.op = "attach"
    /\ \E i \in 1..Len(quillDom.last.before) :
          quillDom.last.before[i].id = quillDom.last.id
    /\ Len(quillInstances) = 2

----------------------------------------------------------------------------
\* Properties of the Remote Gateway, checked under SpecGateway.

\* C15: a Remote Gateway call that receives a non-2xx response settles as an
\* error thrown to its caller; it never resolves normally.
C15_NonOkRejects ==
    (gateway.phase = "settled" /\ gateway.call.validArgs
        /\ ~responseOk(gateway.call.status))
        => gateway.outcome.kind = "rejected"

----------------------------------------------------------------------------
\* Further properties of the Sync Engine, checked under Spec.

\* C16: the autosave timer is stopped by a form submission only when the
\* submission succeeded: a step that stops the timer is the arrival of a
\* success response to a submit request.
C16_StopOnlyAfterSuccessfulSubmit ==
    [][(autoSaveIntervalId # 0 /\ autoSaveIntervalId' = 0)
          => \E req \in BagToSet(inflight) : SubmitResponse(req, "ok")]_vars

\* C17: the cached syllabus id and the last-saved snapshot are written only
\* once a confirming server response has been awaited: a step that writes
\* either is the arrival of a success response to a save request.
C17_CacheWrittenAfterConfirmation ==
    [][(\/ previousFormData' # previousFormData
        \/ (sessionSyllabusId' # sessionSyllabusId /\ sessionSyllabusId' # 0))
          => \E req \in BagToSet(inflight) : SaveResponse(req, "ok")]_vars

\* C19: the status reads 'Autosaving...' only while an autosave request is in
\* flight; once a tick has completed (success, failure or skipped as
\* unchanged) it reads something else.
C19_AutosavingOnlyWhileInFlight ==
    statusText = "Autosaving..."
        => \E req \in BagToSet(inflight) : req.kind = "save" /\ req.autosave

\* C25: autosave is driven by user interaction: the timer is not running on
\* the page just loaded, before any interaction, and when it has been stopped
\* (by a submit) the next edit of a form field starts it again.
C25_AutosaveFollowsInteraction ==
    /\ autoSaveIntervalId = 0
    /\ [][(autoSaveIntervalId = 0 /\ fields' # fields)
             => autoSaveIntervalId' # 0]_vars

----------------------------------------------------------------------------
\* Properties of the Document Assembler under edits of the repeatable
\* sections, checked under SpecSections.

\* the repeatable sections of the DOM that SpecSections edits: SLO groups and
\* weighting rows (assessments and modules are assembled the same way)
repeatableSections == <<sloCells, weighting.rows>>

\* C18: the assembled document reflects every repeatable section: a step that
\* changes the SLO groups or the weighting rows changes the document that
\* collectFormData assembles (so that the next autosave tick finds a
\* difference and sends a save).
C18_AssemblerReflectsRepeatables ==
    [][repeatableSections' # repeatableSections
          => collectFormData' # collectFormData]_vars

----------------------------------------------------------------------------
\* A further property of the SLO column, checked under SpecSLO.

\* the key and the text of each group of a cell, in order
cellContents(cell) == [k \in 1..Len(cell) |-> <<cell[k].o, cell[k].i, cell[k].value>>]

\* the n-th SLO of sloMapping[P][o] under the key o.n
mappedContents(o) ==
    [n \in 1..SLOsPerOutcome |-> <<ToString(o), ToString(n), <<o, n>>>>]

\* C20: once a program has been selected, the SLO cell of every outcome o
\* holds exactly the SLOs of sloMapping[P][o], in the mapping's order, keyed
\* o.1, o.2, ..., and no cell is empty.
C20_SeededFromMapping ==
    [][handleProgramChange
          => \A o \in 1..MaxOutcome : cellContents(sloCells'[o]) = mappedContents(o)]_vars

\* C21: an add through the Add control of the cell of outcome o puts one group
\* into the cell, keyed o.(number of groups the cell already held + 1); from
\* an empty cell, k adds give the keys o.1 .. o.k.
C21_AddAssignsNextSubIndex ==
    [][\A o \in 1..MaxOutcome :
          ClickAdd(o)
              => /\ Len(sloCells'[o]) = Len(sloCells[o]) + 1
                 /\ key(sloCells'[o][Len(sloCells'[o])])
                       = <<ToString(o), ToString(Len(sloCells[o]) + 1)>>]_vars

\* C22: in every reachable state the keys of the groups of an outcome that
\* has at least one group are exactly o.1 .. o.n, n the number of its groups.
C22_KeysContiguous ==
    \A o \in 1..MaxOutcome :
        LET cell == sloCells[o]
        IN  Len(cell) > 0
                => \A k \in 1..Len(cell) : key(cell[k]) = <<ToString(o), ToString(k)>>

----------------------------------------------------------------------------
\* A property of the instructor editors, checked under SpecInstructorEditors.

\* C23: after the instructor list has been regenerated for n instructors, the
\* registry holds an office-hours editor for instructor k exactly for
\* k in 1..n, and each is mounted on a container that is in the DOM.
C23_EditorsMatchInstructors ==
    quillDom.last.op \in {"populateInstructors", "addInstructors"}
        => /\ {quillInstances[i].id : i \in 1..Len(quillInstances)}
                 = {officeHoursId(k) : k \in 1..quillDom.last.n}
           /\ editorsOf(quillInstances, OfficeHoursIds) \cap quillDom.orphans = {}

----------------------------------------------------------------------------
\* A property of document assembly, checked under SpecAssembly.

\* C24: every document assembly that feeds a save or update request has
\* synchronised the editors first, so the rich-text field of the assembled
\* document equals the (trimmed) content of its editor.
C24_AssemblyAfterSync ==
    richText.last.op = "assemble"
        => /\ richText.last.synced
           /\ richText.last.value = trim(richText.last.editor)

----------------------------------------------------------------------------
\* A property of the server's validation, checked under SpecValidation.

\* the document of a body, whichever member carries it
documentOf(body) == body.members[CHOOSE m \in DOMAIN body.members : TRUE]

\* C26: for a body that carries the document as formData or as syllabusData:
\* with autosave false the request is answered 400 (and not passed on) exactly
\* when one of courseTitle, programSelect, courseNumber is missing or empty,
\* and is passed on otherwise; with autosave true it is always passed on.
C26_RequiredFieldsValidated ==
    validation.phase = "done" =>
        LET body    == validation.body
            missing == {f \in RequiredFields : falsy(documentOf(body), f)}
        IN  /\ body.autosave = "true" => validation.outcome = "next"
            /\ body.autosave = "false"
                  => validation.outcome = (IF missing # {} THEN "400" ELSE "next")

----------------------------------------------------------------------------
\* Properties of the Sync Engine's creates and 404 handling, checked under Spec.

\* the creates (POST /syllabus of saveFormData) whose response is outstanding
CreateRequestsInFlight ==
    LET S == {r \in BagToSet(inflight) : r.kind = "save" /\ r.method = "POST"}
    IN  BagCardinality([r \in S |-> CopiesIn(r, inflight)])

\* C27: at most one create is issued for one draft: for a document with no
\* cached id, two overlapping save attempts never both issue POST /syllabus.
C27_AtMostOneCreatePerDraft == CreateRequestsInFlight <= 1

\* C30: every 404 response to a save removes the syllabus id from session
\* storage, whether or not the response body can be parsed as JSON.
C30_IdRemovedOnEvery404 ==
    [][\A req \in BagToSet(inflight) : \A o \in {"404_json", "404_text"} :
          SaveResponse(req, o) => sessionSyllabusId' = 0]_vars

----------------------------------------------------------------------------
\* A further property of the module manager, checked under SpecModules.

\* C29: after any sequence of add-module and remove-module operations no two
\* module blocks of the container have the same identifier module<N>.
C29_ModuleIdsUnique ==
    \A i, j \in 1..Len(modules.blocks) :
        modules.blocks[i].id = modules.blocks[j].id => i = j

----------------------------------------------------------------------------
\* A property of the assessment table, checked under SpecOutcomes.

\* every assessment a row shows was written for the SLO the row shows
ownAssessments(row) ==
    \A i \in 1..Len(row.assessments) :
        row.assessments[i] \in {Empty, assessmentFor(row)}

\* C28: when an SLO is removed and the assessment table is rebuilt (without
\* stored assessments), every remaining SLO keeps its own assessments: no row
\* shows an assessment that was written for another SLO.
C28_RemovalKeepsOwnAssessments ==
    [][\A o \in 1..MaxOutcome : \A k \in 1..(MaxGroups + SLOsPerOutcome) :
          (RemoveGroup(o, k) /\ populated(sloCells[o][k]))
              => \A r \in 1..Len(outcomesTable') : ownAssessments(outcomesTable'[r])]_vars

====
